---- MODULE Spec2Model ----
(***************************************************************************)
(* Model of the MUSE 2.0 documentation and validation scripts:             *)
(*   schemas/validate.py, docs/check_examples_hook.py,                     *)
(*   docs/validate_input_files.py      (batch validation, SpecValidate)    *)
(*   schemas/validate_toml_with_schema.py   (TOML batch, SpecToml)         *)
(*   docs/file_formats/format_docs/csv.py   (sections, SpecSections;       *)
(*                                           load_file, SpecLoad)          *)
(*   docs/file_formats/format_docs/toml.py  (TOML schema loader, SpecLoad) *)
(*   docs/file_formats/format_docs/table.py (table renderer, SpecRender)   *)
(* Text is modelled as sequences of one-character strings.                 *)
(***************************************************************************)
EXTENDS Integers, Sequences, FiniteSets, TLC

VARIABLES
    \* --- batch validation (validate.py, check_examples_hook.py, validate_input_files.py)
    script,      \* which entry point runs
    entries,     \* SchemaIndex.entries: the data-file path of each manifest entry
    batch,       \* the command line / directory listing handed to the entry point
    vIdx,        \* number of batch items consumed by the main loop
    seen,        \* the seen set of get_data_dirs
    ret,         \* main's ret
    vPc,         \* "loop", "done" (returned), "idle" (another specification runs)
    vLast,       \* what the last loop iteration validated and printed
    visited,     \* history: the data directories validated so far, in order
    sawFailure,  \* history: some validated directory had an invalid report
    \* --- TOML batch (validate_toml_with_schema.py)
    tSchema,     \* the state of the schema file on disk
    tFiles,      \* file_paths: the state of each file on disk
    tIdx,        \* number of files consumed by the loop
    tError,      \* main's error
    tPc,         \* "start", "loop", "returned", "exit1", "crashed", "idle"
    tOut,        \* printed lines, one per file that reached validator.validate
    \* --- section loading (format_docs/csv.py _load_sections)
    loader,      \* which section loader runs
    file_order,  \* the caller's mapping, as a sequence of [title, patterns]
    disk,        \* stems of the *.yaml schema files in schema_dir
    sIdx,        \* number of items of file_order consumed by the generator
    sPat,        \* number of patterns of the current item consumed (load_sections)
    sections,    \* the Sections yielded so far
    \* --- pure functions (load_file, _load_toml_info, fields2table, format_notes)
    fn,          \* the function applied
    arg,         \* its input
    res,         \* its result, or NotRun
    \* --- document generation (file_formats/generate_docs.py main)
    options,     \* the options main iterates over
    oIdx,        \* number of options consumed by the loop
    gLast,       \* what the last loop iteration printed and wrote
    gPc          \* "loop", "done" (returned), "raised", "idle"

vars == <<script, entries, batch, vIdx, seen, ret, vPc, vLast, visited, sawFailure,
          tSchema, tFiles, tIdx, tError, tPc, tOut,
          loader, file_order, disk, sIdx, sPat, sections,
          fn, arg, res,
          options, oIdx, gLast, gPc>>

validateVars == <<script, entries, batch, vIdx, seen, ret, vPc, vLast, visited, sawFailure>>
tomlVars == <<tSchema, tFiles, tIdx, tError, tPc, tOut>>
sectionVars == <<loader, file_order, disk, sIdx, sPat, sections>>
fnVars == <<fn, arg, res>>
genVars == <<options, oIdx, gLast, gPc>>

NotRun == [kind |-> "not_run"]

\* The variables of the specifications that are not running.
ValidateIdle ==
    /\ script = "none" /\ entries = <<>> /\ batch = <<>> /\ vIdx = 0 /\ seen = {}
    /\ ret = 0 /\ vPc = "idle" /\ vLast = NotRun /\ visited = <<>> /\ sawFailure = FALSE

TomlIdle ==
    /\ tSchema = "none" /\ tFiles = <<>> /\ tIdx = 0 /\ tError = FALSE /\ tPc = "idle" /\ tOut = <<>>

SectionsIdle ==
    /\ loader = "none" /\ file_order = <<>> /\ disk = {} /\ sIdx = 0 /\ sPat = 0
    /\ sections = <<>>

FnIdle ==
    /\ fn = "none" /\ arg = NotRun /\ res = NotRun

GenIdle ==
    /\ options = <<>> /\ oIdx = 0 /\ gLast = NotRun /\ gPc = "idle"

SeqsUpTo(S, n) == UNION {[1..k -> S] : k \in 0..n}

Range(s) == {s[i] : i \in 1..Len(s)}

(***************************************************************************)
(* Text: a string is a sequence of one-character strings.                  *)
(***************************************************************************)

\* Code points of the characters compared by sorted().
Ord ==
    "\t" :> 9 @@
    "\n" :> 10 @@
    " " :> 32 @@
    "'" :> 39 @@
    "*" :> 42 @@
    "-" :> 45 @@
    "." :> 46 @@
    "0" :> 48 @@
    "1" :> 49 @@
    "2" :> 50 @@
    "A" :> 65 @@
    "B" :> 66 @@
    "_" :> 95 @@
    "a" :> 97 @@
    "b" :> 98 @@
    "e" :> 101 @@
    "g" :> 103 @@
    "l" :> 108 @@
    "m" :> 109 @@
    "n" :> 110 @@
    "s" :> 115 @@
    "t" :> 116 @@
    "x" :> 120 @@
    "y" :> 121

\* Python's str < str: by code point, a proper prefix first.
RECURSIVE StrLess(_, _)
StrLess(a, b) ==
    IF b = <<>> THEN FALSE
    ELSE IF a = <<>> THEN TRUE
    ELSE IF a[1] # b[1] THEN Ord[a[1]] < Ord[b[1]]
    ELSE StrLess(Tail(a), Tail(b))

\* sorted(): insertion of x into a sorted list, after its equals (stable).
RECURSIVE SortedInsert(_, _)
SortedInsert(sortedSeq, x) ==
    IF sortedSeq = <<>> THEN <<x>>
    ELSE IF StrLess(x, sortedSeq[1]) THEN <<x>> \o sortedSeq
    ELSE <<sortedSeq[1]>> \o SortedInsert(Tail(sortedSeq), x)

RECURSIVE sorted(_)
sorted(paths) ==
    IF paths = <<>> THEN <<>>
    ELSE SortedInsert(sorted(SubSeq(paths, 1, Len(paths) - 1)), paths[Len(paths)])

(***************************************************************************)
(* Section loading: docs/file_formats/format_docs/csv.py,                  *)
(* docs/format_docs/csv.py, docs/generate_input_format_doc.py              *)
(***************************************************************************)

MaxSections == 2    \* most titles of a file_order mapping

YamlSuffix == <<".", "y", "a", "m", "l">>

\* Stems of the schema files that may lie in schema_dir.
StemSet == {<<"a", "1">>,
            <<"a", "2">>,
            <<"b", "1">>,
            <<"a", "g", "e", "n", "t", "s">>,
            <<"a", "g", "e", "n", "t", "_", "x">>}

\* Items a file_order mapping may hold.
SectionSet ==
    {[title |-> <<"B">>, patterns |-> <<<<"b", "*">>>>],
     [title |-> <<"A">>, patterns |-> <<<<"a", "*">>>>],
     [title |-> <<"A", "g", "e", "n", "t", "s">>, patterns |-> <<<<"a", "g", "e", "n", "t", "s">>, <<"a", "g", "e", "n", "t", "_", "*">>>>],
     [title |-> <<"A", "g", "e", "n", "t", "s">>, patterns |-> <<<<"a", "g", "e", "n", "t", "_", "*">>, <<"a", "g", "e", "n", "t", "s">>>>]}

\* A dict has each title once.
FileOrderSet ==
    {fo \in SeqsUpTo(SectionSet, MaxSections) :
        \A i, j \in 1..Len(fo) : i # j => fo[i].title # fo[j].title}

\* Glob matching of a whole file name: * matches any run of characters.
RECURSIVE Match(_, _)
Match(pattern, name) ==
    IF pattern = <<>> THEN name = <<>>
    ELSE IF pattern[1] = "*"
         THEN Match(Tail(pattern), name) \/ (name # <<>> /\ Match(pattern, Tail(name)))
    ELSE name # <<>> /\ pattern[1] = name[1] /\ Match(Tail(pattern), Tail(name))

\* schema_dir.glob(f"{pattern}.yaml"): the matching file names.
Glob(files, pattern) ==
    {f \o YamlSuffix : f \in {g \in files : Match(pattern \o YamlSuffix, g \o YamlSuffix)}}

\* A set listed in some order; the caller sorts, so the order is not observable.
RECURSIVE SetToSeq(_)
SetToSeq(S) ==
    IF S = {} THEN <<>>
    ELSE LET x == CHOOSE y \in S : TRUE IN <<x>> \o SetToSeq(S \ {x})

\* for pattern in patterns: paths.extend(map(str, schema_dir.glob(...)))
RECURSIVE ExtendPaths(_, _)
ExtendPaths(files, patterns) ==
    IF patterns = <<>> THEN <<>>
    ELSE SetToSeq(Glob(files, patterns[1])) \o ExtendPaths(files, Tail(patterns))

\* A plausible slip: the items in alphabetical order of title.
RECURSIVE ItemsByTitle(_)
ItemsByTitle(mapping) ==
    IF mapping = <<>> THEN <<>>
    ELSE LET i == CHOOSE k \in 1..Len(mapping) :
                      \A l \in 1..Len(mapping) : ~StrLess(mapping[l].title, mapping[k].title)
         IN <<mapping[i]>> \o
            ItemsByTitle([k \in 1..(Len(mapping) - 1) |->
                             IF k < i THEN mapping[k] ELSE mapping[k + 1]])

\* file_order.items(): insertion order.
Items(mapping) == mapping

\* The Section one iteration of _load_sections yields.
LoadSection(item, files) ==
    [title |-> item.title, files |-> sorted(ExtendPaths(files, item.patterns))]

InitSections ==
    /\ loader \in {"file_formats/format_docs/csv.py", "format_docs/csv.py",
                   "generate_input_format_doc.py"}
    /\ file_order \in FileOrderSet
    /\ disk \in SUBSET StemSet
    /\ sIdx = 0 /\ sPat = 0 /\ sections = <<>>
    /\ ValidateIdle /\ TomlIdle /\ FnIdle /\ GenIdle

\* _load_sections (both format_docs/csv.py): one iteration of the loop over
\* file_order.items(), up to its yield.
LoadSectionsStep ==
    /\ loader \in {"file_formats/format_docs/csv.py", "format_docs/csv.py"}
    /\ sIdx < Len(Items(file_order))
    /\ sections' = Append(sections, LoadSection(Items(file_order)[sIdx + 1], disk))
    /\ sIdx' = sIdx + 1
    /\ UNCHANGED <<loader, file_order, disk, sPat>>
    /\ UNCHANGED <<validateVars, tomlVars, fnVars, genVars>>

\* load_sections (generate_input_format_doc.py): one iteration of the inner loop
\* over the patterns of a title, up to its yield.
LoadSectionsPatternStep ==
    /\ loader = "generate_input_format_doc.py"
    /\ sIdx < Len(Items(file_order))
    /\ LET item == Items(file_order)[sIdx + 1] IN
       /\ sPat < Len(item.patterns)
       /\ sections' = Append(sections,
              [title |-> item.title,
               files |-> sorted(SetToSeq(Glob(disk, item.patterns[sPat + 1])))])
       /\ IF sPat + 1 = Len(item.patterns)
          THEN sIdx' = sIdx + 1 /\ sPat' = 0
          ELSE sIdx' = sIdx /\ sPat' = sPat + 1
    /\ UNCHANGED <<loader, file_order, disk>>
    /\ UNCHANGED <<validateVars, tomlVars, fnVars, genVars>>

NextSections == LoadSectionsStep \/ LoadSectionsPatternStep

SpecSections == InitSections /\ [][NextSections]_vars

CsvLoader == loader \in {"file_formats/format_docs/csv.py", "format_docs/csv.py"}

\* The first pattern of a section that matches a listed file (0 if none does).
FirstPattern(patterns, file) ==
    LET ks == {k \in 1..Len(patterns) : Match(patterns[k] \o YamlSuffix, file)}
    IN IF ks = {} THEN 0 ELSE CHOOSE k \in ks : \A l \in ks : k <= l

\* C5: inside a section the files follow the pattern order first: a file matched by
\* an earlier pattern is never listed after a file matched only by a later one.
C5_PatternOrderFirst ==
    CsvLoader =>
        \A k \in 1..Len(sections) :
            \A i, j \in 1..Len(sections[k].files) :
                i < j => FirstPattern(file_order[k].patterns, sections[k].files[i])
                         <= FirstPattern(file_order[k].patterns, sections[k].files[j])

\* What the code does instead: each section is in plain lexical order.
SectionLexicallySorted ==
    CsvLoader =>
        \A k \in 1..Len(sections) :
            \A i, j \in 1..Len(sections[k].files) :
                i < j => ~StrLess(sections[k].files[j], sections[k].files[i])

\* C6: the sections come out in the insertion order of file_order, never reordered,
\* and each holds exactly the schema files that match one of its own patterns.
C6_SectionsInCallerOrder ==
    CsvLoader =>
        /\ Len(sections) = sIdx
        /\ sIdx <= Len(file_order)
        /\ \A k \in 1..Len(sections) :
              /\ sections[k].title = file_order[k].title
              /\ Range(sections[k].files) =
                    {f \o YamlSuffix : f \in
                        {g \in disk : \E n \in 1..Len(file_order[k].patterns) :
                            Match(file_order[k].patterns[n] \o YamlSuffix, g \o YamlSuffix)}}

\* The example of the specification: B{b1} is emitted before A{a1, a2}.
C6_Witness ==
    /\ CsvLoader
    /\ file_order = <<[title |-> <<"B">>, patterns |-> <<<<"b", "*">>>>],
                      [title |-> <<"A">>, patterns |-> <<<<"a", "*">>>>]>>
    /\ disk = {<<"a", "1">>, <<"a", "2">>, <<"b", "1">>}
    /\ sections = <<[title |-> <<"B">>, files |-> <<<<"b", "1", ".", "y", "a", "m", "l">>>>],
                    [title |-> <<"A">>, files |-> <<<<"a", "1", ".", "y", "a", "m", "l">>, <<"a", "2", ".", "y", "a", "m", "l">>>>]>>

\* The loader has gone through every title of file_order.
SectionsExhausted == loader # "none" /\ sIdx = Len(Items(file_order))

\* The schema files that match one of the patterns of an item of file_order.
FilesOf(item) ==
    {f \o YamlSuffix : f \in
        {g \in disk : \E n \in 1..Len(item.patterns) :
            Match(item.patterns[n] \o YamlSuffix, g \o YamlSuffix)}}

\* C12: every section loader (_load_sections of both format_docs/csv.py and
\* load_sections of generate_input_format_doc.py) yields exactly one Section per
\* title of the file-order mapping: no title is yielded twice, and once the loader
\* is exhausted each title has one Section that holds all the files of its patterns.
C12_OneSectionPerTitle ==
    /\ \A i, j \in 1..Len(sections) : i # j => sections[i].title # sections[j].title
    /\ SectionsExhausted =>
          /\ Len(sections) = Len(file_order)
          /\ \A k \in 1..Len(file_order) :
                \E n \in 1..Len(sections) :
                    /\ sections[n].title = file_order[k].title
                    /\ Range(sections[n].files) = FilesOf(file_order[k])

\* What the code does guarantee: both _load_sections yield one Section per title.
CsvLoadersOneSectionPerTitle == CsvLoader => C12_OneSectionPerTitle

\* load_sections yields one Section per pattern, each under the title of its item.
OneSectionPerPattern ==
    (loader = "generate_input_format_doc.py" /\ SectionsExhausted) =>
        /\ Len(sections) = Len(file_order) +
               Cardinality({k \in 1..Len(file_order) : Len(file_order[k].patterns) = 2})
        /\ \A n \in 1..Len(sections) :
              \E k \in 1..Len(file_order) : \E m \in 1..Len(file_order[k].patterns) :
                  /\ sections[n].title = file_order[k].title
                  /\ Range(sections[n].files) =
                         Glob(disk, file_order[k].patterns[m])

(***************************************************************************)
(* YAML values: [t |-> tag, v |-> text or items]; a key that is not there  *)
(* has the value Absent.                                                   *)
(***************************************************************************)

\* The two quote characters of the rendered text. The backquote is written as a
\* word: a literal one would be paired with a later apostrophe by the lexer.
Apostrophe == "'"
Backquote == "backquote"

Absent == [t |-> "absent", v |-> <<>>]
StrVal(chars) == [t |-> "str", v |-> chars]
ListVal(items) == [t |-> "list", v |-> items]
\* An integer or a boolean, held as the text YAML writes for it.
IntVal(digits) == [t |-> "int", v |-> digits]
BoolVal(word) == [t |-> "bool", v |-> word]

Has(value) == value.t # "absent"

\* Python truthiness of a YAML value.
Truthy(value) ==
    CASE value.t = "absent" -> FALSE
      [] value.t = "int" -> value.v # <<"0">>
      [] value.t = "bool" -> value.v = <<"t", "r", "u", "e">>
      [] OTHER -> value.v # <<>>

Whitespace == {" ", "\n", "\t"}

\* str.rstrip()
RECURSIVE rstrip(_)
rstrip(str) ==
    IF str # <<>> /\ str[Len(str)] \in Whitespace
    THEN rstrip(SubSeq(str, 1, Len(str) - 1))
    ELSE str

endswith(str, suffix) ==
    /\ Len(suffix) <= Len(str)
    /\ SubSeq(str, Len(str) - Len(suffix) + 1, Len(str)) = suffix

startswith(str, prefix) ==
    /\ Len(prefix) <= Len(str)
    /\ SubSeq(str, 1, Len(prefix)) = prefix

removesuffix(str, suffix) ==
    IF endswith(str, suffix) THEN SubSeq(str, 1, Len(str) - Len(suffix)) ELSE str

\* str.replace(old, new): left to right, without overlap (old is not empty).
RECURSIVE replace(_, _, _)
replace(str, old, new) ==
    IF Len(str) < Len(old) THEN str
    ELSE IF SubSeq(str, 1, Len(old)) = old
         THEN new \o replace(SubSeq(str, Len(old) + 1, Len(str)), old, new)
    ELSE <<str[1]>> \o replace(Tail(str), old, new)

\* sep.join(items)
RECURSIVE join(_, _)
join(sep, items) ==
    IF items = <<>> THEN <<>>
    ELSE IF Len(items) = 1 THEN items[1]
    ELSE items[1] \o sep \o join(sep, Tail(items))

\* str.split(sep) for a one-character separator.
RECURSIVE split(_, _)
split(str, sep) ==
    IF \A i \in 1..Len(str) : str[i] # sep THEN <<str>>
    ELSE LET i == CHOOSE k \in 1..Len(str) :
                      str[k] = sep /\ \A l \in 1..(k - 1) : str[l] # sep
         IN <<SubSeq(str, 1, i - 1)>> \o split(SubSeq(str, i + 1, Len(str)), sep)

(***************************************************************************)
(* docs/file_formats/format_docs/table.py                                  *)
(***************************************************************************)

\* Whether yaml.dump writes a string plain (else single-quoted). Decided for the
\* strings of DefaultSet: the empty string, text that reads as another scalar
\* type, and text with a leading or trailing blank are quoted.
YamlPlain(chars) ==
    /\ chars # <<>>
    /\ chars[1] \notin Whitespace /\ chars[Len(chars)] \notin Whitespace
    /\ chars \notin {<<"0">>, <<"1">>, <<"t", "r", "u", "e">>, <<"f", "a", "l", "s", "e">>, <<"n", "u", "l", "l">>}

\* The text of a scalar in YAML syntax.
YamlScalar(value) ==
    IF value.t = "str" /\ ~YamlPlain(value.v) THEN <<Apostrophe>> \o value.v \o <<Apostrophe>>
    ELSE value.v

\* yaml.dump(value) of a scalar: a plain scalar at the root is followed by the
\* document-end marker, a quoted one by a newline only.
dump(value) ==
    IF value.t = "str" /\ ~YamlPlain(value.v)
    THEN YamlScalar(value) \o <<"\n">>
    ELSE YamlScalar(value) \o <<"\n", ".", ".", ".", "\n">>

to_yaml_str(value) == removesuffix(dump(value), <<"\n", ".", ".", ".", "\n">>)

OptionalPrefix == <<"O", "p", "t", "i", "o", "n", "a", "l", ".", " ", "D", "e", "f", "a", "u", "l", "t", "s", " ", "t", "o", " ", Backquote>>
Br == <<"<", "b", "r", " ", "/", ">", "<", "b", "r", " ", "/", ">">>

\* repr() of a string without quotes or escapes in it.
PyRepr(chars) == <<Apostrophe>> \o chars \o <<Apostrophe>>

\* str() of a notes value inside an f-string.
PyStr(value) ==
    IF value.t = "list"
    THEN <<"[">> \o join(<<",", " ">>, [i \in 1..Len(value.v) |-> PyRepr(value.v[i])])
         \o <<"]">>
    ELSE value.v

Raise(exc, key) == [kind |-> "raise", exc |-> exc, key |-> key, printed |-> <<>>]

\* Lines 12-25 of fields2table: the row of one field, or the exception it raises.
FieldRow(f) ==
    LET notes0 == IF Has(f.notes) THEN f.notes ELSE StrVal(<<>>)
        notes1 == IF Has(f.default)
                  THEN StrVal(OptionalPrefix \o to_yaml_str(f.default) \o <<Backquote, ".", "\n", "\n">>
                           \o PyStr(notes0))
                  ELSE notes0
    IN IF notes1.t # "str" THEN Raise("AttributeError", "replace")
       ELSE IF ~Has(f.name) THEN Raise("KeyError", "name")
       ELSE IF ~Has(f.description) THEN Raise("KeyError", "description")
       ELSE [kind |-> "row",
             Field |-> <<Backquote>> \o f.name.v \o <<Backquote>>,
             Description |-> f.description.v,
             Notes |-> replace(replace(notes1.v, <<"\n", "\n">>, Br), <<"\n">>, <<" ">>)]

\* fields2table: the loop over the fields; the table is kept as its rows.
RECURSIVE Fields2TableFrom(_, _, _)
Fields2TableFrom(fields, i, data) ==
    IF i > Len(fields) THEN [kind |-> "table", rows |-> data]
    ELSE LET row == FieldRow(fields[i])
         IN IF row.kind = "raise" THEN row
            ELSE Fields2TableFrom(fields, i + 1, Append(data, row))

fields2table(fields) == Fields2TableFrom(fields, 1, <<>>)

(***************************************************************************)
(* docs/file_formats/format_docs/csv.py: load_file, add_full_stop,         *)
(* format_notes                                                            *)
(***************************************************************************)

add_full_stop(str) ==
    LET stripped == rstrip(str)
    IN IF stripped = <<>> \/ endswith(stripped, <<".">>) THEN stripped
       ELSE stripped \o <<".">>

format_notes(notes) ==
    IF notes.t \notin {"list", "str"} THEN <<>>
    ELSE LET items == IF notes.t = "list"
                      THEN [i \in 1..Len(notes.v) |-> add_full_stop(notes.v[i])]
                      ELSE <<add_full_stop(notes.v)>>
         IN join(<<"\n">>, [i \in 1..Len(items) |-> <<"-", " ">> \o items[i]])

MissingValueIn(path) == [text |-> "MISSING VALUE IN", path |-> path]

\* removal of the ".yaml" extension: path.stem
stem(path) == removesuffix(path, YamlSuffix)

load_file(path, data) ==
    LET table == IF Has(data.fields) THEN fields2table(data.fields.v)
                 ELSE Raise("KeyError", "fields")
    IN IF table.kind = "raise"
       THEN IF table.exc = "KeyError"
            THEN [table EXCEPT !.printed = <<MissingValueIn(path)>>]
            ELSE table
       ELSE IF ~Has(data.description) THEN Raise("KeyError", "description")
       ELSE [kind |-> "File",
             name |-> stem(path) \o <<".", "c", "s", "v">>,
             description |-> add_full_stop(data.description.v),
             table |-> table.rows,
             notes |-> IF Truthy(data.notes) THEN StrVal(format_notes(data.notes))
                       ELSE data.notes]

(***************************************************************************)
(* docs/file_formats/format_docs/toml.py                                   *)
(***************************************************************************)

\* A mapping in file order: [t |-> "dict", v |-> <<[key, value], ...>>].
DictVal(items) == [t |-> "dict", v |-> items]

\* toml_table2list: value["name"] = key; out.append(value)
toml_table2list(props) ==
    [i \in 1..Len(props) |-> [props[i].value EXCEPT !.name = StrVal(props[i].key)]]

\* Lines 42-46: the sub-table of each property of type object, from property i on.
RECURSIVE SubTablesFrom(_, _, _)
SubTablesFrom(properties, i, tables) ==
    IF i > Len(properties) THEN [kind |-> "tables", tables |-> tables]
    ELSE LET prop == properties[i] IN
         IF ~Has(prop.type) THEN Raise("KeyError", "type")
         ELSE IF prop.type.v # <<"o", "b", "j", "e", "c", "t">> THEN SubTablesFrom(properties, i + 1, tables)
         ELSE IF ~Has(prop.properties) THEN Raise("KeyError", "properties")
         ELSE LET table == fields2table(toml_table2list(prop.properties.v))
              IN IF table.kind = "raise" THEN table
                 ELSE SubTablesFrom(properties, i + 1,
                          Append(tables, [name |-> prop.name.v, rows |-> table.rows]))

ModelToml == <<"m", "o", "d", "e", "l", ".", "t", "o", "m", "l">>

load_toml_info(file_name, data) ==
    LET heading == IF Truthy(data.title)
                   THEN data.title.v \o <<":", " ", Backquote>> \o file_name \o <<Backquote>>
                   ELSE <<Backquote>> \o file_name \o <<Backquote>>
    IN IF ~Has(data.type) THEN Raise("KeyError", "type")
       ELSE IF data.type.v # <<"o", "b", "j", "e", "c", "t">> THEN Raise("AssertionError", "type")
       ELSE IF ~Has(data.properties) THEN Raise("KeyError", "properties")
       ELSE LET properties == toml_table2list(data.properties.v)
                root == fields2table(properties)
            IN IF root.kind = "raise" THEN root
               ELSE LET sub == SubTablesFrom(properties, 1,
                                   <<[name |-> <<>>, rows |-> root.rows]>>)
                    IN IF sub.kind = "raise" THEN sub
                       ELSE [kind |-> "TOMLInfo",
                             heading |-> heading,
                             description |-> IF Has(data.description)
                                             THEN data.description.v ELSE <<>>,
                             tables |-> sub.tables]

(***************************************************************************)
(* The loaders applied to schema files: load_file and _load_toml_info      *)
(***************************************************************************)

MaxFields == 2      \* most fields of a CSV schema, most properties of a table

NonEmptySeqs(S, n) == SeqsUpTo(S, n) \ {<<>>}

\* Field records of a CSV schema, with each required key there or not.
LoadFieldSet ==
    [name : {Absent, StrVal(<<"n">>)},
     description : {Absent, StrVal(<<"d">>)},
     notes : {Absent, StrVal(<<"x">>)},
     default : {Absent}]

LoadDataSet ==
    [description : {Absent, StrVal(<<"A", "g", "e", "n", "t", "s">>)},
     fields : {Absent} \cup {ListVal(fs) : fs \in NonEmptySeqs(LoadFieldSet, MaxFields)},
     notes : {Absent, StrVal(<<"n", "o", "t", "e">>), ListVal(<<<<"a">>, <<"b", ".">>>>)}]

AgentsYaml == <<"a", "g", "e", "n", "t", "s", ".", "y", "a", "m", "l">>

\* Properties of a TOML schema, level by level (3 = inside a sub-table of a sub-table).
Prop(type, description, properties) ==
    [name |-> Absent, type |-> type, description |-> description, notes |-> Absent,
     default |-> Absent, properties |-> properties]

TypeString == StrVal(<<"s", "t", "r", "i", "n", "g">>)
TypeObject == StrVal(<<"o", "b", "j", "e", "c", "t">>)
Described == StrVal(<<"d">>)

\* The i-th key of a table whose keys start with letter.
Key(letter, i) == <<letter, <<"1", "2", "3", "4", "5">>[i]>>

\* The mappings of 1..n properties with values drawn from values.
DictsOver(letter, values, n) ==
    {DictVal([i \in 1..Len(vs) |-> [key |-> Key(letter, i), value |-> vs[i]]]) :
        vs \in NonEmptySeqs(values, n)}

PropSet3 == {Prop(TypeString, Described, Absent)}

PropSet2 ==
    {Prop(TypeString, Described, Absent)} \cup
    {Prop(TypeObject, Described, d) : d \in DictsOver("c", PropSet3, 1)}

PropSet1 ==
    {Prop(TypeString, Described, Absent), Prop(TypeString, Absent, Absent),
     Prop(Absent, Described, Absent), Prop(TypeObject, Described, Absent)} \cup
    {Prop(TypeObject, Described, d) : d \in DictsOver("b", PropSet2, MaxFields)}

TomlDataSet ==
    [title : {Absent, StrVal(<<"M", "o", "d", "e", "l">>)},
     type : {Absent, TypeObject, StrVal(<<"a", "r", "r", "a", "y">>)},
     description : {Absent, Described},
     properties : {Absent} \cup DictsOver("a", PropSet1, MaxFields)]

InitLoad ==
    /\ \/ /\ fn = "load_file"
          /\ arg \in [path : {AgentsYaml}, data : LoadDataSet]
       \/ /\ fn = "_load_toml_info"
          /\ arg \in [file_name : {ModelToml}, data : TomlDataSet]
    /\ res = NotRun
    /\ ValidateIdle /\ TomlIdle /\ SectionsIdle /\ GenIdle

\* load_file(path) on a schema file holding arg.data
ApplyLoadFile ==
    /\ fn = "load_file" /\ res = NotRun
    /\ res' = load_file(arg.path, arg.data)
    /\ UNCHANGED <<fn, arg>>
    /\ UNCHANGED <<validateVars, tomlVars, sectionVars, genVars>>

\* _load_toml_info(file_name, schema_path) on a schema file holding arg.data
ApplyLoadTomlInfo ==
    /\ fn = "_load_toml_info" /\ res = NotRun
    /\ res' = load_toml_info(arg.file_name, arg.data)
    /\ UNCHANGED <<fn, arg>>
    /\ UNCHANGED <<validateVars, tomlVars, sectionVars, genVars>>

NextLoad == ApplyLoadFile \/ ApplyLoadTomlInfo

SpecLoad == InitLoad /\ [][NextLoad]_vars

Loaded(name) == fn = name /\ res # NotRun

\* The fields list, or the name or description of a field, is missing.
MissingFieldKey(data) ==
    \/ ~Has(data.fields)
    \/ /\ Has(data.fields)
       /\ \E i \in 1..Len(data.fields.v) :
              ~Has(data.fields.v[i].name) \/ ~Has(data.fields.v[i].description)

\* A required key of a CSV schema is missing.
MissingRequiredKey(data) == ~Has(data.description) \/ MissingFieldKey(data)

\* C7: whenever a required key is missing (description, fields, or the name or
\* description of a field) load_file fails and the failure names the schema file.
C7_MissingKeyNamesPath ==
    (Loaded("load_file") /\ MissingRequiredKey(arg.data)) =>
        /\ res.kind = "raise"
        /\ \E n \in 1..Len(res.printed) : res.printed[n].path = arg.path

\* What the code does keep: a missing key never yields a File, and a missing fields
\* list or field key is reported with the path.
MissingKeyRaises ==
    Loaded("load_file") =>
        /\ MissingRequiredKey(arg.data) <=> (res.kind = "raise")
        /\ MissingFieldKey(arg.data) => res.printed = <<MissingValueIn(arg.path)>>

IsObject(prop) == Has(prop.type) /\ prop.type.v = TypeObject.v

\* Every key the loader reads is there, at the top level and in each sub-table.
TomlWellFormed(data) ==
    /\ IsObject(data) /\ Has(data.properties)
    /\ \A i \in 1..Len(data.properties.v) :
          LET prop == data.properties.v[i].value IN
          /\ Has(prop.type) /\ Has(prop.description)
          /\ IsObject(prop) => Has(prop.properties)

\* The positions <<i, j>> of the objects nested inside a sub-table.
DeepObjects(data) ==
    {ij \in (1..Len(data.properties.v)) \X (1..MaxFields) :
        LET prop == data.properties.v[ij[1]].value IN
        /\ IsObject(prop)
        /\ ij[2] <= Len(prop.properties.v)
        /\ IsObject(prop.properties.v[ij[2]].value)}

\* C8: one level of sub-tables is supported; a property of type object inside a
\* sub-table makes the loader raise an explicit unsupported-feature error.
C8_DeepNestingRaises ==
    (Loaded("_load_toml_info") /\ TomlWellFormed(arg.data) /\ DeepObjects(arg.data) # {})
        => res.kind = "raise" /\ res.exc = "NotImplementedError"

TopLevelObjects(data) ==
    SelectSeq([i \in 1..Len(data.properties.v) |->
                  IF IsObject(data.properties.v[i].value)
                  THEN data.properties.v[i].key ELSE <<>>],
              LAMBDA k : k # <<>>)

\* What the code does keep: each top-level object gets its own sub-table, after the
\* root table; a deeper object is an ordinary row of the sub-table it lies in.
OneSubTablePerObject ==
    (Loaded("_load_toml_info") /\ TomlWellFormed(arg.data)) =>
        /\ res.kind = "TOMLInfo"
        /\ [k \in 1..Len(res.tables) |-> res.tables[k].name]
              = <<<<>>>> \o TopLevelObjects(arg.data)
        /\ \A ij \in DeepObjects(arg.data) :
              \E k \in 1..Len(res.tables) :
                  /\ res.tables[k].name = arg.data.properties.v[ij[1]].key
                  /\ res.tables[k].rows[ij[2]].Field =
                        <<Backquote>> \o Key("b", ij[2]) \o <<Backquote>>

(***************************************************************************)
(* The renderers applied to field records and notes: fields2table,         *)
(* format_notes                                                            *)
(***************************************************************************)

MaxNotes == 2       \* most items of a notes list

\* Default values a field may declare: 0, false, the empty string, a word.
DefaultSet ==
    {IntVal(<<"0">>), BoolVal(<<"f", "a", "l", "s", "e">>), StrVal(<<>>), StrVal(<<"a", "b", "c">>)}

\* Note items, with and without a full stop, empty and blank.
NoteItemSet == {<<"a">>, <<"b", ".">>, <<"c", ".", " ">>, <<>>, <<" ">>}

NotesListSet == {ListVal(items) : items \in SeqsUpTo(NoteItemSet, MaxNotes)}

RenderFieldSet ==
    [name : {StrVal(<<"n">>)},
     description : {StrVal(<<"d">>)},
     notes : {Absent, StrVal(<<"x">>), StrVal(<<"p", "\n", "\n", "q", "\n", "r">>),
              ListVal(<<<<"a">>, <<"b">>>>)},
     default : {Absent} \cup DefaultSet]

InitRender ==
    /\ \/ /\ fn = "fields2table"
          /\ arg \in NonEmptySeqs(RenderFieldSet, MaxFields)
       \/ /\ fn = "format_notes"
          /\ arg \in NotesListSet \cup {StrVal(item) : item \in NoteItemSet}
                     \cup {Absent, IntVal(<<"1">>)}
    /\ res = NotRun
    /\ ValidateIdle /\ TomlIdle /\ SectionsIdle /\ GenIdle

\* fields2table(fields)
ApplyFields2Table ==
    /\ fn = "fields2table" /\ res = NotRun
    /\ res' = fields2table(arg)
    /\ UNCHANGED <<fn, arg>>
    /\ UNCHANGED <<validateVars, tomlVars, sectionVars, genVars>>

\* format_notes(notes)
ApplyFormatNotes ==
    /\ fn = "format_notes" /\ res = NotRun
    /\ res' = [kind |-> "str", text |-> format_notes(arg)]
    /\ UNCHANGED <<fn, arg>>
    /\ UNCHANGED <<validateVars, tomlVars, sectionVars, genVars>>

NextRender == ApplyFields2Table \/ ApplyFormatNotes

SpecRender == InitRender /\ [][NextRender]_vars

\* The notes of a field as the table shows them when nothing is put before them.
RenderedNotes(f) ==
    IF Has(f.notes)
    THEN replace(replace(f.notes.v, <<"\n", "\n">>, Br), <<"\n">>, <<" ">>)
    ELSE <<>>

TextNotes(f) == f.notes.t \in {"absent", "str"}

\* C9: a field with a default (0, false and the empty string included) has notes
\* that begin with the words Optional. Defaults to, the default in YAML scalar
\* syntax between back-quotes with nothing added, a full stop, and then its own
\* notes; a field without a default has its own notes only.
C9_DefaultPrefix ==
    (Loaded("fields2table") /\ \A i \in 1..Len(arg) : TextNotes(arg[i])) =>
        /\ res.kind = "table"
        /\ \A i \in 1..Len(arg) :
              res.rows[i].Notes =
                  IF Has(arg[i].default)
                  THEN OptionalPrefix \o YamlScalar(arg[i].default) \o <<Backquote, ".">>
                       \o Br \o RenderedNotes(arg[i])
                  ELSE RenderedNotes(arg[i])

\* What the code does keep: the claim for every default that YAML writes plain, and
\* for a field without default.
PlainDefaultPrefix ==
    (Loaded("fields2table") /\ \A i \in 1..Len(arg) : TextNotes(arg[i])) =>
        /\ res.kind = "table"
        /\ \A i \in 1..Len(arg) :
              (arg[i].default.t = "str" => YamlPlain(arg[i].default.v)) =>
                  res.rows[i].Notes =
                      IF Has(arg[i].default)
                      THEN OptionalPrefix \o YamlScalar(arg[i].default)
                           \o <<Backquote, ".">> \o Br \o RenderedNotes(arg[i])
                      ELSE RenderedNotes(arg[i])

\* A bullet line that ends in one full stop.
IsBullet(line) ==
    /\ startswith(line, <<"-", " ">>)
    /\ endswith(line, <<".">>)
    /\ ~endswith(line, <<".", ".">>)

BulletLines(text, n) ==
    LET lines == split(text, "\n")
    IN Len(lines) = n /\ \A k \in 1..n : IsBullet(lines[k])

Contains(text, part) ==
    \E k \in 0..(Len(text) - Len(part)) : SubSeq(text, k + 1, k + Len(part)) = part

\* An item as the claim wants it shown: ending in one full stop.
WithFullStop(item) ==
    IF endswith(rstrip(item), <<".">>) THEN rstrip(item) ELSE rstrip(item) \o <<".">>

\* C10: notes that are a list of n strings render as n bullet lines, each ending
\* in one full stop (empty and blank items included), a notes string as one such
\* bullet, and so do the notes of a field given to the table renderer.
C10_BulletsEndInFullStop ==
    /\ (Loaded("format_notes") /\ arg.t = "list" /\ arg.v # <<>>) =>
           BulletLines(res.text, Len(arg.v))
    /\ (Loaded("format_notes") /\ arg.t = "str") => BulletLines(res.text, 1)
    /\ (Loaded("fields2table") /\ \E i \in 1..Len(arg) : arg[i].notes.t = "list") =>
           /\ res.kind = "table"
           /\ \A i \in 1..Len(arg) :
                  arg[i].notes.t = "list" =>
                      \A k \in 1..Len(arg[i].notes.v) :
                          Contains(res.rows[i].Notes,
                                   <<"-", " ">> \o WithFullStop(arg[i].notes.v[k]))

\* An item with something other than white space in it.
NotBlank(item) == rstrip(item) # <<>>

\* What the code does keep: format_notes gives one line per item, and the line of
\* every item that is not blank is a bullet ending in one full stop.
NonBlankBullets ==
    (Loaded("format_notes") /\ arg.t \in {"list", "str"}) =>
        LET items == IF arg.t = "list" THEN arg.v ELSE <<arg.v>>
            lines == split(res.text, "\n")
        IN /\ items # <<>> => Len(lines) = Len(items)
           /\ \A k \in 1..Len(items) :
                  IF NotBlank(items[k]) THEN IsBullet(lines[k])
                  ELSE lines[k] = <<"-", " ">>

\* What the code does instead for list notes of a field: without a default the
\* renderer fails on the list, with one it shows the list as Python prints it.
FieldListNotesNotBulleted ==
    Loaded("fields2table") =>
        /\ (res.kind = "raise") <=>
               (\E i \in 1..Len(arg) : arg[i].notes.t = "list" /\ ~Has(arg[i].default))
        /\ res.kind = "raise" => res.exc = "AttributeError"
        /\ res.kind = "table" =>
               \A i \in 1..Len(arg) :
                   arg[i].notes.t = "list" => endswith(res.rows[i].Notes, <<"]">>)

(***************************************************************************)
(* Batch validation: schemas/validate.py, docs/check_examples_hook.py,     *)
(* docs/validate_input_files.py                                            *)
(***************************************************************************)

NDirs == 2          \* directories 1..NDirs; the first NExampleDirs lie in EXAMPLES_DIR
NExampleDirs == 1
MaxBatch == 2       \* longest command line / directory listing
MaxEntries == 2     \* most entries of a manifest
NPaths == 2         \* distinct relative data-file paths a manifest may name
MaxTasks == 2       \* most tasks of a validation report

Dirs == 1..NDirs
ExamplesDirs == 1..NExampleDirs

\* A path: the directory dir itself (file = 0) or a file inside it (file = 1);
\* csv says whether a file's name ends in ".csv" (FALSE for a directory).

is_dir(path) == path.file = 0

parent(path) == [dir |-> path.dir, file |-> 0, csv |-> FALSE]

\* A frictionless report: errors recorded on the report itself, and one error list
\* per task. The library derives valid from the total error count.
TaskErrorSet == {<<>>, <<"b", "a">>}
ReportErrorSet == {<<>>, <<"r">>}
TaskSet == [errors : TaskErrorSet]
ReportSet == [errors : ReportErrorSet, tasks : SeqsUpTo(TaskSet, MaxTasks)]

ReportValid(report) ==
    /\ report.errors = <<>>
    /\ \A i \in 1..Len(report.tasks) : report.tasks[i].errors = <<>>

\* for task in report.tasks: for error in task.errors: errors.append(error.message)
RECURSIVE TaskMessages(_)
TaskMessages(tasks) ==
    IF tasks = <<>> THEN <<>>
    ELSE tasks[1].errors \o TaskMessages(Tail(tasks))

\* Validator.validate, applied to the report frictionless gives for (schema, file).
ValidatorValidate(report) ==
    IF ~ReportValid(report) THEN TaskMessages(report.tasks) ELSE <<>>

\* A dict as a sequence of [key, value] in insertion order; d[k] = v.
DictSet(d, k, v) ==
    IF \E i \in 1..Len(d) : d[i].key = k
    THEN [i \in 1..Len(d) |-> IF d[i].key = k THEN [key |-> k, value |-> v] ELSE d[i]]
    ELSE Append(d, [key |-> k, value |-> v])

\* SchemaIndex.validate: the loop over self.entries from entry i on.
RECURSIVE SchemaIndexValidateFrom(_, _, _, _)
SchemaIndexValidateFrom(ents, reports, i, errors) ==
    IF i > Len(ents) THEN errors
    ELSE LET cur_errors == ValidatorValidate(reports[i])
         IN SchemaIndexValidateFrom(ents, reports, i + 1,
                IF cur_errors # <<>> THEN DictSet(errors, ents[i], cur_errors)
                ELSE errors)

SchemaIndexValidate(ents, reports) == SchemaIndexValidateFrom(ents, reports, 1, <<>>)

Line(k, at, msg) == [k |-> k, at |-> at, msg |-> msg]

ErrorLines(errors) == [i \in 1..Len(errors) |-> Line("error", 0, errors[i])]

\* validate.py main, lines 89-96: what one directory prints.
RECURSIVE PrintFileErrors(_)
PrintFileErrors(errors) ==
    IF errors = <<>> THEN <<>>
    ELSE <<Line("has_errors", errors[1].key, "")>> \o ErrorLines(errors[1].value)
         \o PrintFileErrors(Tail(errors))

ValidatePrint(data_dir, errors) ==
    IF errors = <<>> THEN <<Line("valid", data_dir, "")>>
    ELSE PrintFileErrors(errors)

\* check_examples_hook.py / validate_input_files.py: what one directory prints.
RECURSIVE PrintTaskErrors(_, _)
PrintTaskErrors(tasks, i) ==
    IF i > Len(tasks) THEN <<>>
    ELSE (IF tasks[i].errors # <<>>
          THEN <<Line("errors_in", i, "")>> \o ErrorLines(tasks[i].errors)
          ELSE <<>>) \o PrintTaskErrors(tasks, i + 1)

PackagePrint(data_dir, report) ==
    <<Line("validating", data_dir, "")>> \o
    (IF ReportValid(report) THEN <<Line("valid", data_dir, "")>>
     ELSE <<Line("has_errors", data_dir, "")>> \o PrintTaskErrors(report.tasks, 1))

\* get_data_dirs_inner: the directory a command-line path stands for.
DataDir(path) == IF is_dir(path) THEN path ELSE parent(path)

\* get_data_dirs: the index of the next path after i whose directory is yielded
\* (0 when the generator is exhausted).
NextDataDir(paths, i, seenDirs) ==
    LET js == {j \in (i + 1)..Len(paths) : DataDir(paths[j]) \notin seenDirs}
    IN IF js = {} THEN 0 ELSE CHOOSE j \in js : \A k \in js : j <= k

\* get_examples: the index of the next path after i whose example is yielded.
NextExample(paths, i, seenDirs) ==
    LET js == {j \in (i + 1)..Len(paths) :
                  /\ paths[j].csv
                  /\ parent(paths[j]).dir \in ExamplesDirs
                  /\ parent(paths[j]) \notin seenDirs}
    IN IF js = {} THEN 0 ELSE CHOOSE j \in js : \A k \in js : j <= k

InitValidate ==
    /\ script \in {"validate", "check_examples_hook", "validate_input_files"}
    /\ \/ /\ script = "validate"
          /\ entries \in SeqsUpTo(1..NPaths, MaxEntries) \ {<<>>}
          /\ batch \in SeqsUpTo([dir : Dirs, file : 0..1, csv : {FALSE}], MaxBatch)
       \/ /\ script = "check_examples_hook"
          /\ entries = <<>>
          /\ batch \in SeqsUpTo([dir : Dirs, file : {1}, csv : BOOLEAN], MaxBatch)
       \/ /\ script = "validate_input_files"
          /\ entries = <<>>
          \* EXAMPLES_DIR.iterdir(): distinct children, directories or plain files
          /\ batch \in {b \in SeqsUpTo([dir : Dirs, file : 0..1, csv : {FALSE}],
                                       MaxBatch) :
                           \A i, j \in 1..Len(b) : i # j => b[i].dir # b[j].dir}
    /\ vIdx = 0 /\ seen = {} /\ ret = 0 /\ vPc = "loop" /\ vLast = NotRun
    /\ visited = <<>> /\ sawFailure = FALSE
    /\ TomlIdle /\ SectionsIdle /\ FnIdle /\ GenIdle

\* validate.py main: one iteration of for data_dir in get_data_dirs(...).
ValidateStep ==
    /\ vPc = "loop" /\ script = "validate"
    /\ LET j == NextDataDir(batch, vIdx, seen) IN
       /\ j # 0
       /\ \E reports \in [1..Len(entries) -> ReportSet] :
            LET data_dir == DataDir(batch[j])
                errors == SchemaIndexValidate(entries, reports)
            IN /\ vIdx' = j
               /\ seen' = seen \cup {data_dir}
               /\ ret' = IF errors = <<>> THEN ret ELSE 1
               /\ vLast' = [kind |-> "validated", dir |-> data_dir.dir,
                            reports |-> reports,
                            lists |-> [i \in 1..Len(reports) |->
                                          ValidatorValidate(reports[i])],
                            errors |-> errors,
                            out |-> ValidatePrint(data_dir.dir, errors)]
               /\ visited' = Append(visited, data_dir.dir)
               /\ sawFailure' = (sawFailure \/
                                 \E i \in 1..Len(reports) : ~ReportValid(reports[i]))
    /\ UNCHANGED <<script, entries, batch, vPc>>
    /\ UNCHANGED <<tomlVars, sectionVars, fnVars, genVars>>

ValidateReturn ==
    /\ vPc = "loop" /\ script = "validate"
    /\ NextDataDir(batch, vIdx, seen) = 0
    /\ vPc' = "done" /\ vIdx' = Len(batch)
    /\ UNCHANGED <<script, entries, batch, seen, ret, vLast, visited, sawFailure>>
    /\ UNCHANGED <<tomlVars, sectionVars, fnVars, genVars>>

\* The body shared by both package-validating loops (hook lines 35-52,
\* validate_input_files lines 24-41).
PackageValidate(j, data_dir) ==
    \E report \in ReportSet :
        /\ vIdx' = j
        /\ ret' = IF ReportValid(report) THEN ret ELSE 1
        /\ vLast' = [kind |-> "validated", dir |-> data_dir.dir,
                     reports |-> <<report>>, lists |-> <<>>, errors |-> <<>>,
                     out |-> PackagePrint(data_dir.dir, report)]
        /\ visited' = Append(visited, data_dir.dir)
        /\ sawFailure' = (sawFailure \/ ~ReportValid(report))

\* check_examples_hook.py main: one iteration of for data_dir in data_dirs,
\* data_dirs being get_examples(sys.argv[1:]).
HookStep ==
    /\ vPc = "loop" /\ script = "check_examples_hook"
    /\ LET j == NextExample(batch, vIdx, seen) IN
       /\ j # 0
       /\ seen' = seen \cup {parent(batch[j])}
       /\ PackageValidate(j, parent(batch[j]))
    /\ UNCHANGED <<script, entries, batch, vPc>>
    /\ UNCHANGED <<tomlVars, sectionVars, fnVars, genVars>>

HookReturn ==
    /\ vPc = "loop" /\ script = "check_examples_hook"
    /\ NextExample(batch, vIdx, seen) = 0
    /\ vPc' = "done" /\ vIdx' = Len(batch)
    /\ UNCHANGED <<script, entries, batch, seen, ret, vLast, visited, sawFailure>>
    /\ UNCHANGED <<tomlVars, sectionVars, fnVars, genVars>>

\* validate_input_files.py main: one iteration of for data_dir in EXAMPLES_DIR.iterdir().
InputFilesStep ==
    /\ vPc = "loop" /\ script = "validate_input_files"
    /\ vIdx < Len(batch)
    /\ LET data_dir == batch[vIdx + 1] IN
       IF ~is_dir(data_dir)
       THEN /\ vIdx' = vIdx + 1
            /\ UNCHANGED <<ret, vLast, visited, sawFailure>>
       ELSE PackageValidate(vIdx + 1, data_dir)
    /\ UNCHANGED <<script, entries, batch, seen, vPc>>
    /\ UNCHANGED <<tomlVars, sectionVars, fnVars, genVars>>

InputFilesReturn ==
    /\ vPc = "loop" /\ script = "validate_input_files"
    /\ vIdx = Len(batch)
    /\ vPc' = "done"
    /\ UNCHANGED <<script, entries, batch, vIdx, seen, ret, vLast, visited, sawFailure>>
    /\ UNCHANGED <<tomlVars, sectionVars, fnVars, genVars>>

NextValidate ==
    \/ ValidateStep \/ ValidateReturn
    \/ HookStep \/ HookReturn
    \/ InputFilesStep \/ InputFilesReturn

SpecValidate == InitValidate /\ [][NextValidate]_vars

\* The directories the entry point is to validate, in order.
RECURSIVE DedupDirs(_, _)
DedupDirs(ds, acc) ==
    IF ds = <<>> THEN acc
    ELSE DedupDirs(Tail(ds), IF ds[1] \in Range(acc) THEN acc ELSE Append(acc, ds[1]))

BatchDirs ==
    LET keep == CASE script = "validate" -> [i \in 1..Len(batch) |-> TRUE]
                  [] script = "check_examples_hook" ->
                        [i \in 1..Len(batch) |-> batch[i].csv /\ batch[i].dir \in ExamplesDirs]
                  [] OTHER -> [i \in 1..Len(batch) |-> batch[i].file = 0]
    IN DedupDirs(SelectSeq([i \in 1..Len(batch) |-> IF keep[i] THEN batch[i].dir ELSE 0],
                           LAMBDA d : d # 0), <<>>)

ValidatedBy(name) == script = name /\ vLast # NotRun

\* C1: for every batch-validation entry point the exit status is 1 exactly when some
\* directory of the batch failed validation (so it never returns to 0 after a
\* failure), and when main returns every directory of the batch has been validated.
C1_ExitStatusIffFailure ==
    vPc \in {"loop", "done"} =>
        /\ (ret = 1) <=> sawFailure
        /\ ret \in {0, 1}
        /\ vPc = "done" => visited = BatchDirs

\* The same statement for the two package-validating entry points alone.
PackageExitStatusIffFailure ==
    script \in {"check_examples_hook", "validate_input_files"} => C1_ExitStatusIffFailure

\* Every directory is visited whatever failed before, by every entry point.
AllDirectoriesVisited == vPc = "done" => visited = BatchDirs

\* C4: Validator.validate returns the empty list exactly when the report is valid,
\* and for an invalid report the task messages in report order.
C4_EmptyIffValid ==
    ValidatedBy("validate") =>
        \A i \in 1..Len(vLast.reports) :
            /\ (vLast.lists[i] = <<>>) <=> ReportValid(vLast.reports[i])
            /\ ~ReportValid(vLast.reports[i]) =>
                   vLast.lists[i] = TaskMessages(vLast.reports[i].tasks)

\* The half of C4 the code does keep: a valid report gives no message, and the
\* messages are the task messages in report order.
ValidImpliesEmpty ==
    ValidatedBy("validate") =>
        \A i \in 1..Len(vLast.reports) :
            /\ ReportValid(vLast.reports[i]) => vLast.lists[i] = <<>>
            /\ vLast.lists[i] \in {<<>>, TaskMessages(vLast.reports[i].tasks)}

FailingEntries == {i \in 1..Len(entries) : ~ReportValid(vLast.reports[i])}

ReportedPaths == {vLast.errors[k].key : k \in 1..Len(vLast.errors)}

\* C3: with a manifest of several files of which some are valid and some fail, the
\* directory counts as invalid (status 1), the errors reported are exactly those of
\* the failing files, and no valid file is reported with errors.
C3_PartialFailure ==
    (/\ ValidatedBy("validate")
     /\ Len(entries) >= 2
     /\ \A i, j \in 1..Len(entries) : i # j => entries[i] # entries[j]
     /\ FailingEntries # {}
     /\ FailingEntries # 1..Len(entries))
    => /\ ret = 1
       /\ ReportedPaths = {entries[i] : i \in FailingEntries}
       /\ \A k \in 1..Len(vLast.errors) : \E i \in FailingEntries :
              /\ entries[i] = vLast.errors[k].key
              /\ vLast.errors[k].value = TaskMessages(vLast.reports[i].tasks)
       /\ \A n \in 1..Len(vLast.out) :
              vLast.out[n].k = "has_errors" =>
                  \E i \in FailingEntries : entries[i] = vLast.out[n].at

(***************************************************************************)
(* TOML batch: schemas/validate_toml_with_schema.py                        *)
(***************************************************************************)

MaxFiles == 3       \* most files on the command line

\* What a file of the batch is on disk.
FileStateSet == {"conforming", "nonconforming", "unopenable", "not_toml"}

\* The schema file: loadable and a valid schema, unreadable, or rejected by check_schema.
SchemaStateSet == {"ok", "unreadable", "invalid"}

InitToml ==
    /\ tSchema \in SchemaStateSet
    /\ tFiles \in SeqsUpTo(FileStateSet, MaxFiles)
    /\ tIdx = 0 /\ tError = FALSE /\ tPc = "start" /\ tOut = <<>>
    /\ ValidateIdle /\ SectionsIdle /\ FnIdle /\ GenIdle

\* Lines 17-22: load and check the schema; an exception here leaves main.
TomlLoadSchema ==
    /\ tPc = "start"
    /\ tPc' = IF tSchema = "ok" THEN "loop" ELSE "crashed"
    /\ UNCHANGED <<tSchema, tFiles, tIdx, tError, tOut>>
    /\ UNCHANGED <<validateVars, sectionVars, fnVars, genVars>>

\* Open and parse outside the try block (lines 24-25): OSError and TOMLDecodeError
\* are caught by nothing.
TomlLoadRaises(state) == state \in {"unopenable", "not_toml"}

\* Lines 23-32: one iteration of for file_path in file_paths.
TomlStep ==
    /\ tPc = "loop"
    /\ tIdx < Len(tFiles)
    /\ LET state == tFiles[tIdx + 1] IN
       IF TomlLoadRaises(state)
       THEN /\ tPc' = "crashed"
            /\ UNCHANGED <<tIdx, tError, tOut>>
       ELSE /\ tIdx' = tIdx + 1
            /\ tError' = (tError \/ state = "nonconforming")
            /\ tOut' = Append(tOut, [file |-> tIdx + 1,
                                     line |-> IF state = "nonconforming"
                                              THEN "Error validating"
                                              ELSE "Validated successfully"])
            /\ UNCHANGED tPc
    /\ UNCHANGED <<tSchema, tFiles>>
    /\ UNCHANGED <<validateVars, sectionVars, fnVars, genVars>>

\* Lines 34-35: sys.exit(1) if any file failed, else return.
TomlFinish ==
    /\ tPc = "loop"
    /\ tIdx = Len(tFiles)
    /\ tPc' = IF tError THEN "exit1" ELSE "returned"
    /\ UNCHANGED <<tSchema, tFiles, tIdx, tError, tOut>>
    /\ UNCHANGED <<validateVars, sectionVars, fnVars, genVars>>

NextToml == TomlLoadSchema \/ TomlStep \/ TomlFinish

SpecToml == InitToml /\ [][NextToml]_vars

TomlEnded == tPc \in {"returned", "exit1", "crashed"}

\* The files that reached validator.validate.
TomlValidated == {tOut[n].file : n \in 1..Len(tOut)}

\* C2: a failure on one file of the batch (non-conformance, an unopenable file, a
\* file that is not TOML) ends that file only: when the process ends every file
\* that can be loaded has been validated (the batch is never cut short).
C2_BatchContinues ==
    (tSchema = "ok" /\ TomlEnded) =>
        \A i \in 1..Len(tFiles) : ~TomlLoadRaises(tFiles[i]) => i \in TomlValidated

\* What the code does keep: non-conformance never stops the batch.
NonconformanceContinues ==
    (TomlEnded /\ tSchema = "ok" /\ \A i \in 1..Len(tFiles) : ~TomlLoadRaises(tFiles[i]))
    => /\ TomlValidated = 1..Len(tFiles)
       /\ (tPc = "exit1") <=> (\E i \in 1..Len(tFiles) : tFiles[i] = "nonconforming")
       /\ tPc # "crashed"

(***************************************************************************)
(* Template rendering: the jinja2 Environment that main of                 *)
(* docs/file_formats/generate_docs.py constructs, with no undefined=       *)
(* argument, so that an undefined name evaluates to jinja2.Undefined       *)
(***************************************************************************)

MaxNodes == 2       \* most expressions and loops of a template
MaxOptions == 2     \* most options on the command line

\* What a name the render context does not hold evaluates to.
Undefined(name) == [t |-> "undefined", v |-> <<>>, name |-> name]

\* {{ name }}
PrintNode(name) == [k |-> "print", name |-> name, attr |-> "none"]
\* {{ name.attr }}
AttrNode(name, attr) == [k |-> "attr", name |-> name, attr |-> attr]
\* {% for x in name %}{{ x.attr }}{% endfor %}
ForNode(name, attr) == [k |-> "for", name |-> name, attr |-> attr]

\* Context.resolve: the value of a name, or Undefined.
Resolve(context, name) ==
    IF name \in DOMAIN context THEN context[name] ELSE Undefined(name)

\* Environment.getattr: an attribute of a value; of Undefined it raises
\* UndefinedError, and an attribute the value has not is Undefined again.
GetAttr(value, attr) ==
    IF value.t = "undefined" THEN Raise("UndefinedError", value.name)
    ELSE IF value.t = "section" /\ attr = "title" THEN StrVal(value.v.title)
    ELSE Undefined(attr)

\* str() of an evaluated expression: Undefined gives the empty string.
ToText(value) == IF value.t = "undefined" THEN <<>> ELSE value.v

Raised(result) == "kind" \in DOMAIN result /\ result.kind = "raise"

RECURSIVE ForBody(_, _, _)
ForBody(items, attr, i) ==
    IF i > Len(items) THEN <<>>
    ELSE ToText(GetAttr(items[i], attr)) \o ForBody(items, attr, i + 1)

\* The text one node renders to, with the nodes (blank) whose value was
\* Undefined and was written as nothing; or the exception raised.
RenderNode(context, node) ==
    LET value == Resolve(context, node.name) IN
    IF node.k = "print"
    THEN [kind |-> "ok", text |-> ToText(value),
          blank |-> IF value.t = "undefined" THEN {node} ELSE {}]
    ELSE IF node.k = "attr"
    THEN LET a == GetAttr(value, node.attr) IN
         IF Raised(a) THEN a
         ELSE IF a.t = "undefined"
         THEN [kind |-> "ok", text |-> <<>>, blank |-> {node}]
         ELSE [kind |-> "ok", text |-> ToText(a), blank |-> {}]
    ELSE \* for: iterating Undefined gives no item
         IF value.t = "undefined"
         THEN [kind |-> "ok", text |-> <<>>, blank |-> {node}]
         ELSE [kind |-> "ok", text |-> ForBody(value.v, node.attr, 1), blank |-> {}]

\* Template.render(**context)
RECURSIVE RenderFrom(_, _, _, _)
RenderFrom(template, context, i, acc) ==
    IF i > Len(template) THEN acc
    ELSE LET r == RenderNode(context, template[i]) IN
         IF r.kind = "raise" THEN r
         ELSE RenderFrom(template, context, i + 1,
                  [kind |-> "ok", text |-> acc.text \o r.text,
                   blank |-> acc.blank \cup r.blank])

render(template, context) ==
    RenderFrom(template, context, 1, [kind |-> "ok", text |-> <<>>, blank |-> {}])

(***************************************************************************)
(* The generators: generate_for_csv, generate_for_toml and                 *)
(* docs/file_formats/generate_docs.py                                      *)
(***************************************************************************)

\* INPUT_FILE_ORDER, cut down to two titles.
INPUT_FILE_ORDER ==
    <<[title |-> <<"A", "g", "e", "n", "t", "s">>,
       patterns |-> <<<<"a", "g", "e", "n", "t", "s">>, <<"a", "g", "e", "n", "t", "_", "*">>>>],
      [title |-> <<"B">>, patterns |-> <<<<"b", "*">>>>]>>

SettingsToml == <<"s", "e", "t", "t", "i", "n", "g", "s", ".", "t", "o", "m", "l">>
MetadataToml == <<"m", "e", "t", "a", "d", "a", "t", "a", ".", "t", "o", "m", "l">>
ScriptName == <<"g", "e", "n", "e", "r", "a", "t", "e", "_", "d", "o", "c", "s", ".", "p", "y">>

\* heading_level * "#"
Hashes(heading_level) == [i \in 1..heading_level |-> "#"]

SectionVal(section) == [t |-> "section", v |-> section]

\* list(_load_sections(file_order, schema_dir))
load_sections(mapping, files) ==
    [i \in 1..Len(Items(mapping)) |-> SectionVal(LoadSection(Items(mapping)[i], files))]

generate_for_csv(template, mapping, files) ==
    render(template, [sections |-> ListVal(load_sections(mapping, files))])

\* Lines 24-29 of generate_for_toml: the render call, once _load_toml_info returned.
RenderTomlInfo(template, toml_info, heading_level) ==
    IF toml_info.kind = "raise" THEN toml_info
    ELSE render(template,
                [title |-> StrVal(toml_info.heading),
                 heading_level |-> StrVal(Hashes(heading_level)),
                 description |-> StrVal(toml_info.description),
                 tables |-> DictVal(toml_info.tables)])

generate_for_toml(template, file_name, data, heading_level) ==
    RenderTomlInfo(template, load_toml_info(file_name, data), heading_level)

\* The (filename, txt) a generator returns, or the exception that ended it. blank
\* keeps the nodes that out and the blocks rendered into it (inner) left blank.
Document(filename, out, inner) ==
    IF out.kind = "raise" THEN out
    ELSE [kind |-> "ok", filename |-> filename, text |-> out.text,
          blank |-> out.blank \cup inner]

generate_settings_docs(env, data) ==
    Document("program_settings.md",
             generate_for_toml(env.toml, SettingsToml, data, 1), {})

\* Lines 44-48 of generate_input_docs, once both blocks are rendered.
RenderInputFiles(template, csv_sections, toml_info) ==
    IF csv_sections.kind = "raise" THEN csv_sections
    ELSE IF toml_info.kind = "raise" THEN toml_info
    ELSE Document("input_files.md",
                  render(template,
                         [csv_sections |-> StrVal(csv_sections.text),
                          toml_info |-> StrVal(toml_info.text),
                          script_name |-> StrVal(ScriptName)]),
                  csv_sections.blank \cup toml_info.blank)

generate_input_docs(env, data, files) ==
    RenderInputFiles(env.input_files,
                     generate_for_csv(env.csv, INPUT_FILE_ORDER, files),
                     generate_for_toml(env.toml, ModelToml, data, 2))

\* Lines 57-59 of generate_output_docs, once the block is rendered.
RenderOutputFiles(template, toml_info) ==
    IF toml_info.kind = "raise" THEN toml_info
    ELSE Document("output_files.md",
                  render(template,
                         [toml_info |-> StrVal(toml_info.text),
                          script_name |-> StrVal(ScriptName)]),
                  toml_info.blank)

generate_output_docs(env, data) ==
    RenderOutputFiles(env.output_files,
                      generate_for_toml(env.toml, MetadataToml, data, 2))

generators == {"settings", "input", "output"}

\* The constructs a template file of each name may hold when get_template reads it.
CsvNodeSet == {ForNode("sections", "title"), PrintNode("title")}
TomlNodeSet == {PrintNode("title"), PrintNode("description"), AttrNode("toml_info", "heading")}
InputNodeSet == {PrintNode("csv_sections"), PrintNode("toml_info"), PrintNode("title"),
                 AttrNode("toml_info", "heading")}
OutputNodeSet == {PrintNode("toml_info"), PrintNode("sections")}

TemplateSet(nodes) == NonEmptySeqs(nodes, MaxNodes)

\* What yaml.safe_load may give for the schema of a TOML file.
GenTomlDataSet ==
    [title : {StrVal(<<"M", "o", "d", "e", "l">>)},
     type : {TypeObject},
     description : {Described},
     properties : {Absent,
                   DictVal(<<[key |-> Key("a", 1),
                              value |-> Prop(TypeString, Described, Absent)]>>)}]

\* The schema files that may lie in INPUT_SCHEMA_DIR.
GenSchemaDirSet == {{}, {<<"a", "g", "e", "n", "t", "s">>, <<"b", "1">>}}

OptionSet == generators \cup {"bogus"}

\* The __main__ block: no argument means every generator, in the order of the dict.
InitGenerate ==
    /\ \E argv \in SeqsUpTo(OptionSet, MaxOptions) :
          options = IF argv = <<>> THEN <<"settings", "input", "output">> ELSE argv
    /\ oIdx = 0 /\ gLast = NotRun /\ gPc = "loop"
    /\ ValidateIdle /\ TomlIdle /\ SectionsIdle /\ FnIdle

\* The else branch of main's loop body: fun(env) returned doc, or raised.
WriteDocument(doc) ==
    /\ gLast' = doc
    /\ IF doc.kind = "raise"
       THEN gPc' = "raised" /\ oIdx' = oIdx
       ELSE gPc' = gPc /\ oIdx' = oIdx + 1
    /\ UNCHANGED options
    /\ UNCHANGED <<validateVars, tomlVars, sectionVars, fnVars>>

\* main, one iteration: generators[option] raises KeyError
MainUnknownOption ==
    /\ gPc = "loop" /\ oIdx < Len(options)
    /\ options[oIdx + 1] \notin generators
    /\ gLast' = [kind |-> "unknown", option |-> options[oIdx + 1]]
    /\ oIdx' = oIdx + 1
    /\ UNCHANGED <<options, gPc>>
    /\ UNCHANGED <<validateVars, tomlVars, sectionVars, fnVars>>

\* main, one iteration: option "settings"
MainSettings ==
    /\ gPc = "loop" /\ oIdx < Len(options)
    /\ options[oIdx + 1] = "settings"
    /\ \E toml \in TemplateSet(TomlNodeSet), data \in GenTomlDataSet :
          WriteDocument(generate_settings_docs([toml |-> toml], data))

\* main, one iteration: option "input"
MainInput ==
    /\ gPc = "loop" /\ oIdx < Len(options)
    /\ options[oIdx + 1] = "input"
    /\ \E csv \in TemplateSet(CsvNodeSet), toml \in TemplateSet(TomlNodeSet),
          input_files \in TemplateSet(InputNodeSet),
          data \in GenTomlDataSet, files \in GenSchemaDirSet :
          WriteDocument(generate_input_docs(
              [csv |-> csv, toml |-> toml, input_files |-> input_files], data, files))

\* main, one iteration: option "output"
MainOutput ==
    /\ gPc = "loop" /\ oIdx < Len(options)
    /\ options[oIdx + 1] = "output"
    /\ \E toml \in TemplateSet(TomlNodeSet), output_files \in TemplateSet(OutputNodeSet),
          data \in GenTomlDataSet :
          WriteDocument(generate_output_docs(
              [toml |-> toml, output_files |-> output_files], data))

\* main returns after the last option
MainReturn ==
    /\ gPc = "loop" /\ oIdx = Len(options)
    /\ gPc' = "done"
    /\ UNCHANGED <<options, oIdx, gLast>>
    /\ UNCHANGED <<validateVars, tomlVars, sectionVars, fnVars>>

NextGenerate == MainUnknownOption \/ MainSettings \/ MainInput \/ MainOutput \/ MainReturn

SpecGenerate == InitGenerate /\ [][NextGenerate]_vars

\* A document was returned and written by the last iteration.
DocumentWritten == gLast.kind = "ok"

\* C11: rendering a template with a variable the caller did not supply, or that
\* is undefined in the render context, fails with an error: no generator returns
\* a document in which the place of such a variable was left blank.
C11_MissingVariableFails ==
    DocumentWritten => gLast.blank = {}

\* What the code does guarantee: an exception of a loader or of the renderer is
\* not caught by main, so the run ends there and the option's file is not written.
RaiseEndsRun ==
    /\ gPc = "raised" => gLast.kind = "raise" /\ oIdx < Len(options)
    /\ gLast.kind = "raise" =>
           gPc = "raised" /\ gLast.exc \in {"KeyError", "UndefinedError"}

====
